---- MODULE Spec2Model ----
(***************************************************************************)
(* A model of the 902.gr crawl / extraction pipeline (scrapper_902gr.py)   *)
(* and of the label import of the batch labelling helper                   *)
(* (codex_labeler.py).                                                     *)
(*                                                                         *)
(* Strings are sequences of character codes.  A code >= BadDateTok stands  *)
(* for a substring that DT_RE matches (DD/MM/YYYY - HH:MM): BadDateTok is  *)
(* a match that strptime rejects (e.g. 99/99/2024 - 10:00), and            *)
(* BadDateTok + 1 + m is a match that parses to minute m.  Datetimes are   *)
(* integers counting ticks, TicksPerMinute ticks to the minute, so that a  *)
(* datetime taken from the clock can fall between two minutes.  Article    *)
(* URLs are integers; their order is the order sorted() gives the URLs.    *)
(***************************************************************************)
EXTENDS Integers, Sequences, FiniteSets, TLC

\* ------------------------------------------------------------ bounds
NumUrls == 2
MaxPages == 2
MaxDays == 1
TicksPerMinute == 2
MaxPickLen == 32
MaxBodyLen == 5
MaxListLen == 2

\* ------------------------------------------------- program constants
None == -1
Raised == -2
MinutesPerDay == 1440
Window == 15
SPACE == 0
NEWLINE == 10
BadDateTok == 99

VARIABLES
    \* fetch_articles / main: the invocation
    pc, outcome, entry, days, since, pages, output,
    \* scrape_articles: arguments and locals
    cutoff, max_pages, seen, articles, page, todo, oldest_on_page,
    \* the network and the clock, as the run has used them
    article_fetches, list_fetches, last_fetch, slept_short, slept_long,
    relisted, page_dates, misses,
    \* what the invocation hands back
    returned, file,
    \* pick_published_at / extract_body called on their own
    strings, title, called, result,
    \* import_results: LABELS_FILE, OUTPUT_FILE and the loaded store
    labels_file, output_file, loaded

crawl_vars == <<pc, outcome, entry, days, since, pages, output,
                cutoff, max_pages, seen, articles, page, todo, oldest_on_page,
                article_fetches, list_fetches, last_fetch, slept_short, slept_long,
                relisted, page_dates, misses, returned, file>>
fun_vars == <<strings, title, called, result>>
import_vars == <<labels_file, output_file, loaded>>
vars == <<crawl_vars, fun_vars, import_vars>>

URLs == 1..NumUrls

\* An optional value: Python's None, or a value that is there.
Nothing == [some |-> FALSE, val |-> <<>>]
Some(v) == [some |-> TRUE, val |-> v]

\* ------------------------------------------------------------ strings
TitleStr == <<1>>
TextA == <<2>>
TextB == <<3, SPACE, 4>>
StopA == <<5>>
StopB == <<6>>
NoiseA == <<7>>
NoiseB == <<8>>
STOP_MARKERS == {StopA, StopB}
NOISE_STRINGS == {NoiseA, NoiseB}

\* A string holding a timestamp pattern for minute m, and one holding a
\* pattern that is no calendar date.
DateStr(m) == <<2, BadDateTok + 1 + m>>
BadDateStr == <<2, BadDateTok>>

\* DT_RE.search(s): the leftmost match in s, or None.
RECURSIVE DtSearch(_)
DtSearch(s) ==
    IF s = <<>> THEN None
    ELSE IF Head(s) >= BadDateTok THEN Head(s)
    ELSE DtSearch(Tail(s))

\* datetime.strptime(m.group(1) + " " + m.group(2), "%d/%m/%Y %H:%M"): a
\* datetime at a whole minute, or ValueError.
Strptime(m) ==
    IF m = BadDateTok THEN Raised ELSE (m - BadDateTok - 1) * TicksPerMinute

\* published_at.isoformat(timespec="minutes"): the minute, seconds dropped.
IsoFormat(dt) == dt \div TicksPerMinute

\* datetime.fromisoformat(item["published_at"])
FromIsoFormat(iso) == iso * TicksPerMinute

\* x in strings
In(x, seq) == \E i \in 1..Len(seq) : seq[i] = x

\* strings.index(x), 0-based as in Python.
Index(seq, x) ==
    (CHOOSE i \in 1..Len(seq) : seq[i] = x /\ \A j \in 1..(i - 1) : seq[j] # x) - 1

\* seq[lo:hi] for 0 <= lo and 0 <= hi <= len(seq).
Slice(seq, lo, hi) == SubSeq(seq, lo + 1, hi)

Max(a, b) == IF a >= b THEN a ELSE b
Min(a, b) == IF a <= b THEN a ELSE b

\* "if title": None and "" are both false; the model writes both as <<>>.
Truthy(t) == t # <<>>

\* The loop "for s in ...: m = DT_RE.search(s); if m: return strptime(...)":
\* the parse of the first entry that matches (a datetime or Raised), or None
\* when the loop falls through.
RECURSIVE FirstMatch(_)
FirstMatch(seq) ==
    IF seq = <<>> THEN None
    ELSE IF DtSearch(Head(seq)) # None THEN Strptime(DtSearch(Head(seq)))
    ELSE FirstMatch(Tail(seq))

\* The window searched around the title at 0-based index i.
TitleWindow(seq, i) ==
    Slice(seq, Max(0, i - Window), Min(Len(seq), i + Window))

pick_published_at(seq, t) ==
    LET inWindow ==
            IF Truthy(t) /\ In(t, seq)
            THEN FirstMatch(TitleWindow(seq, Index(seq, t)))
            ELSE None
    IN  IF inWindow # None THEN inWindow ELSE FirstMatch(seq)

\* "\n".join(out)
RECURSIVE Join(_)
Join(out) ==
    IF out = <<>> THEN <<>>
    ELSE IF Len(out) = 1 THEN Head(out)
    ELSE Head(out) \o <<NEWLINE>> \o Join(Tail(out))

IsSpace(c) == c \in {SPACE, NEWLINE}

\* str.strip()
RECURSIVE LStrip(_)
LStrip(s) == IF s # <<>> /\ IsSpace(Head(s)) THEN LStrip(Tail(s)) ELSE s
RECURSIVE RStrip(_)
RStrip(s) ==
    IF s # <<>> /\ IsSpace(s[Len(s)]) THEN RStrip(SubSeq(s, 1, Len(s) - 1)) ELSE s
Strip(s) == RStrip(LStrip(s))

\* Faulty variant: a stop marker is skipped like a noise string.
RECURSIVE BodyLoopNoBreak(_, _)
BodyLoopNoBreak(rest, out) ==
    IF rest = <<>> THEN out
    ELSE IF Head(rest) \in STOP_MARKERS \cup NOISE_STRINGS
         THEN BodyLoopNoBreak(Tail(rest), out)
    ELSE BodyLoopNoBreak(Tail(rest), Append(out, Head(rest)))

\* The loop of extract_body over strings[i + 1:]: break at a stop marker,
\* skip a noise string, keep the rest.
RECURSIVE BodyLoop(_, _)
BodyLoop(rest, out) ==
    IF rest = <<>> THEN out
    ELSE IF Head(rest) \in STOP_MARKERS THEN out
    ELSE IF Head(rest) \in NOISE_STRINGS THEN BodyLoop(Tail(rest), out)
    ELSE BodyLoop(Tail(rest), Append(out, Head(rest)))

\* extract_body: "return body if body else None".
extract_body(seq, t) ==
    IF ~Truthy(t) \/ ~In(t, seq) THEN Nothing
    ELSE LET body == Strip(Join(BodyLoop(Slice(seq, Index(seq, t) + 1, Len(seq)), <<>>)))
         IN  IF body # <<>> THEN Some(body) ELSE Nothing

\* ------------------------------------------------------ the crawler
\* What an article page can hold: the flattened text of its main region and
\* its normalized title.  One page per timestamp around the cutoffs the
\* model's inputs produce, one with no timestamp pattern, one whose title
\* is not in the text, one whose pattern is no calendar date.
ArticleMinutes == {MinutesPerDay - 1, MinutesPerDay, MinutesPerDay + 1}
ArticleDocs ==
    {[strings |-> <<TitleStr, DateStr(m), TextA, StopA, TextB>>, title |-> TitleStr] :
        m \in ArticleMinutes}
    \cup {[strings |-> <<TitleStr, TextA>>, title |-> TitleStr],
          [strings |-> <<TextB, DateStr(MinutesPerDay)>>, title |-> <<>>],
          [strings |-> <<TitleStr, BadDateStr>>, title |-> TitleStr]}

\* parse_article on a fetched page: None, an item, or the ValueError of
\* strptime passing through.
parse_article(doc, url) ==
    LET published_at == pick_published_at(doc.strings, doc.title)
    IN  IF published_at = Raised THEN [kind |-> "raise", item |-> Nothing]
        ELSE IF published_at = None THEN [kind |-> "none", item |-> Nothing]
        ELSE [kind |-> "item",
              item |-> Some([url |-> url,
                             title |-> doc.title,
                             published_at |-> IsoFormat(published_at),
                             body |-> extract_body(doc.strings, doc.title)])]

\* sorted(new_links)
RECURSIVE Sorted(_)
Sorted(S) ==
    IF S = {} THEN <<>>
    ELSE LET m == CHOOSE x \in S : \A y \in S : x <= y
         IN  <<m>> \o Sorted(S \ {m})

\* Faulty variant: every link of the page is taken as new.
NewLinksUnfiltered(links, seenSet) == links

\* new_links = [u for u in links if u not in seen]
NewLinks(links, seenSet) == links \ seenSet

\* Faulty variant: the page limit tested with > in place of >=.
PageLimitOffByOne(maxPages, p) == maxPages # None /\ p > maxPages

\* "if max_pages is not None and page >= max_pages: break"
PageLimitReached(maxPages, p) == maxPages # None /\ p >= maxPages

\* "oldest_on_page = dt if oldest_on_page is None else min(oldest_on_page, dt)"
Oldest(oldest, dt) == IF oldest = None THEN dt ELSE Min(oldest, dt)

\* Faulty variant: the cutoff compared at the precision of the stored string.
KeepsByMinute(cut, dt) == cut = None \/ IsoFormat(dt) >= IsoFormat(cut)

\* "if cutoff is None or dt >= cutoff: articles.append(item)"
Keeps(cut, dt) == cut = None \/ dt >= cut

\* "if cutoff and oldest_on_page and oldest_on_page < cutoff: break"
\* (a datetime is always true, so each test is a test against None).
CutoffCrossed(cut, oldest) == cut # None /\ oldest # None /\ oldest < cut

\* main's test before fetch_articles is called: "if not args.days and not
\* args.since and not args.pages: parser.error(...)".  0 is false too.
CliRejects(d, s, p) == (d = None \/ d = 0) /\ s = None /\ (p = None \/ p = 0)

\* Faulty variant: the test for a missing bound left out.
ApiNeverRejects(d, s, p) == FALSE

\* fetch_articles: "if days is None and since is None and pages is None:
\* raise ValueError(...)"
ApiRejects(d, s, p) == d = None /\ s = None /\ p = None

\* fetch_articles: the cutoff from since (midnight of that day) or from
\* days (the clock minus that many days).
CutoffOf(d, s, clock) ==
    IF s # None THEN s * MinutesPerDay * TicksPerMinute
    ELSE IF d # None THEN clock - d * MinutesPerDay * TicksPerMinute
    ELSE None

\* The clock readings of datetime.now(): on a minute, and between two.
ClockReadings ==
    {2 * MinutesPerDay * TicksPerMinute, 2 * MinutesPerDay * TicksPerMinute + 1}

DaysInputs == {None} \cup 0..MaxDays
SinceInputs == {None, 1}
PagesInputs == {None} \cup 0..MaxPages

InitFun == strings = <<>> /\ title = <<>> /\ called = FALSE /\ result = Nothing
InitImport == labels_file = Nothing /\ output_file = Nothing /\ loaded = Nothing

InitCrawl ==
    /\ pc = "start"
    /\ outcome = "running"
    /\ entry = "none"
    /\ days = None /\ since = None /\ pages = None /\ output = FALSE
    /\ cutoff = None /\ max_pages = None
    /\ seen = {} /\ articles = <<>> /\ page = 0 /\ todo = <<>>
    /\ oldest_on_page = None
    /\ article_fetches = [u \in URLs |-> 0]
    /\ list_fetches = 0
    /\ last_fetch = "none" /\ slept_short = FALSE /\ slept_long = FALSE
    /\ relisted = FALSE /\ page_dates = {} /\ misses = {}
    /\ returned = Nothing
    /\ file = Nothing

Init == InitCrawl /\ InitFun /\ InitImport

\* Faulty variant: the failure is swallowed and the run goes on where it was.
UnwindSwallowed(why) ==
    /\ pc' = pc
    /\ outcome' = why
    /\ UNCHANGED <<returned, file>>

\* An exception unwinds scrape_articles, fetch_articles and main: nothing
\* is returned and nothing is written.
Unwind(why) ==
    /\ pc' = "aborted"
    /\ outcome' = why
    /\ UNCHANGED <<returned, file>>

\* scrape_articles returns; fetch_articles writes the output file when one
\* was asked for and returns the list.
Finish(why, list) ==
    /\ pc' = "done"
    /\ outcome' = why
    /\ returned' = Some(list)
    /\ file' = IF output THEN Some(list) ELSE file

\* main / fetch_articles up to the call of scrape_articles.
Invoke ==
    /\ pc = "start"
    /\ \E e \in {"cli", "api"}, d \in DaysInputs, s \in SinceInputs,
          p \in PagesInputs, o \in BOOLEAN, clock \in ClockReadings :
        /\ entry' = e /\ days' = d /\ since' = s /\ pages' = p /\ output' = o
        /\ IF (e = "cli" /\ CliRejects(d, s, p)) \/ ApiRejects(d, s, p)
           THEN /\ Unwind("config_error")
                /\ UNCHANGED <<cutoff, max_pages>>
           ELSE /\ cutoff' = CutoffOf(d, s, clock)
                /\ max_pages' = p
                /\ pc' = "loop"
                /\ UNCHANGED <<outcome, returned, file>>
    /\ UNCHANGED <<seen, articles, page, todo, oldest_on_page, article_fetches,
                   list_fetches, last_fetch, slept_short, slept_long,
                   relisted, page_dates, misses>>
    /\ UNCHANGED <<fun_vars, import_vars>>

\* The top of the while loop at the page limit.
StopAtPageLimit ==
    /\ pc = "loop"
    /\ PageLimitReached(max_pages, page)
    /\ Finish("page_limit", articles)
    /\ UNCHANGED <<entry, days, since, pages, output, cutoff, max_pages, seen,
                   articles, page, todo, oldest_on_page, article_fetches,
                   list_fetches, last_fetch, slept_short, slept_long,
                   relisted, page_dates, misses>>
    /\ UNCHANGED <<fun_vars, import_vars>>

\* One listing page: the fetch, the links, the new links.
FetchListing ==
    /\ pc = "loop"
    /\ ~PageLimitReached(max_pages, page)
    /\ list_fetches' = list_fetches + 1
    /\ last_fetch' = "listing"
    /\ slept_short' = FALSE
    /\ slept_long' = FALSE
    /\ \/ /\ Unwind("fetch_error")
          /\ UNCHANGED <<todo, oldest_on_page, relisted, page_dates>>
       \/ \E links \in SUBSET URLs :
            /\ relisted' = (relisted \/ links \cap seen # {})
            /\ IF NewLinks(links, seen) = {}
               THEN /\ Finish("exhausted", articles)
                    /\ UNCHANGED <<todo, oldest_on_page, page_dates>>
               ELSE /\ todo' = Sorted(NewLinks(links, seen))
                    /\ oldest_on_page' = None
                    /\ page_dates' = {}
                    /\ pc' = "page"
                    /\ UNCHANGED <<outcome, returned, file>>
    /\ UNCHANGED <<entry, days, since, pages, output, cutoff, max_pages, seen,
                   articles, page, article_fetches, misses>>
    /\ UNCHANGED <<fun_vars, import_vars>>

\* Faulty variant: a missing timestamp ends the run.
OnMissFatal ==
    /\ pc' = "aborted"
    /\ outcome' = "value_error"
    /\ slept_short' = FALSE
    /\ UNCHANGED <<todo, returned, file, oldest_on_page, articles>>

\* "if not item: continue": the next link, with no delay.
OnMiss ==
    /\ todo' = Tail(todo)
    /\ slept_short' = FALSE
    /\ UNCHANGED <<pc, outcome, returned, file, oldest_on_page, articles>>

\* Faulty variant: only a retained record moves oldest_on_page.
OnItemRetainedOnly(item) ==
    LET dt == FromIsoFormat(item.published_at) IN
    /\ todo' = Tail(todo)
    /\ oldest_on_page' = IF Keeps(cutoff, dt) THEN Oldest(oldest_on_page, dt)
                          ELSE oldest_on_page
    /\ articles' = IF Keeps(cutoff, dt) THEN Append(articles, item) ELSE articles
    /\ slept_short' = TRUE
    /\ UNCHANGED <<pc, outcome, returned, file>>

\* The rest of the loop body for an extracted item, up to time.sleep(0.4).
OnItem(item) ==
    LET dt == FromIsoFormat(item.published_at) IN
    /\ todo' = Tail(todo)
    /\ oldest_on_page' = Oldest(oldest_on_page, dt)
    /\ articles' = IF Keeps(cutoff, dt) THEN Append(articles, item) ELSE articles
    /\ slept_short' = TRUE
    /\ UNCHANGED <<pc, outcome, returned, file>>

\* One turn of "for url in sorted(new_links)".
ProcessLink ==
    /\ pc = "page"
    /\ todo # <<>>
    /\ LET url == Head(todo) IN
        /\ seen' = seen \cup {url}
        /\ article_fetches' = [article_fetches EXCEPT ![url] = @ + 1]
        /\ last_fetch' = "article"
        /\ \/ /\ Unwind("fetch_error")
              /\ slept_short' = FALSE
              /\ UNCHANGED <<todo, oldest_on_page, articles, page_dates, misses>>
           \/ \E doc \in ArticleDocs :
                LET r == parse_article(doc, url)
                IN  CASE r.kind = "raise" ->
                            /\ Unwind("value_error")
                            /\ slept_short' = FALSE
                            /\ UNCHANGED <<todo, oldest_on_page, articles,
                                           page_dates, misses>>
                      [] r.kind = "none" ->
                            /\ OnMiss
                            /\ misses' = misses \cup {url}
                            /\ UNCHANGED page_dates
                      [] r.kind = "item" ->
                            /\ OnItem(r.item.val)
                            /\ page_dates' = page_dates \cup
                                   {FromIsoFormat(r.item.val.published_at)}
                            /\ UNCHANGED misses
    /\ UNCHANGED <<entry, days, since, pages, output, cutoff, max_pages, page,
                   list_fetches, slept_long, relisted>>
    /\ UNCHANGED <<fun_vars, import_vars>>

\* Faulty variant: the page index is not advanced.
EndPageNoAdvance ==
    /\ pc = "page"
    /\ todo = <<>>
    /\ IF CutoffCrossed(cutoff, oldest_on_page)
       THEN /\ Finish("cutoff", articles)
            /\ UNCHANGED <<page, slept_short, slept_long>>
       ELSE /\ page' = page
            /\ slept_short' = TRUE
            /\ slept_long' = TRUE
            /\ pc' = "loop"
            /\ UNCHANGED <<outcome, returned, file>>
    /\ UNCHANGED <<entry, days, since, pages, output, cutoff, max_pages, seen,
                   articles, todo, oldest_on_page, article_fetches,
                   list_fetches, last_fetch, relisted, page_dates, misses>>
    /\ UNCHANGED <<fun_vars, import_vars>>

\* After the page's links: the cutoff test, or the next page index.
EndPage ==
    /\ pc = "page"
    /\ todo = <<>>
    /\ IF CutoffCrossed(cutoff, oldest_on_page)
       THEN /\ Finish("cutoff", articles)
            /\ UNCHANGED <<page, slept_short, slept_long>>
       ELSE /\ page' = page + 1
            /\ slept_short' = TRUE
            /\ slept_long' = TRUE
            /\ pc' = "loop"
            /\ UNCHANGED <<outcome, returned, file>>
    /\ UNCHANGED <<entry, days, since, pages, output, cutoff, max_pages, seen,
                   articles, todo, oldest_on_page, article_fetches,
                   list_fetches, last_fetch, relisted, page_dates, misses>>
    /\ UNCHANGED <<fun_vars, import_vars>>

Next == Invoke \/ StopAtPageLimit \/ FetchListing \/ ProcessLink \/ EndPage

Spec == Init /\ [][Next]_vars

\* The run is one sequential thread that blocks only in fetches (each with
\* a timeout) and in sleeps: whenever a step is possible, a step is taken.
FairSpec == Spec /\ WF_vars(Next)

\* ------------------------------------------------- claims on the crawl
MinOf(S) == IF S = {} THEN None ELSE CHOOSE x \in S : \A y \in S : x <= y
NoDuplicateUrls(list) ==
    \A i, j \in 1..Len(list) : list[i].url = list[j].url => i = j
AllAtOrAfter(list, cut) ==
    \A i \in 1..Len(list) : FromIsoFormat(list[i].published_at) >= cut
NoFetchYet == list_fetches = 0 /\ \A u \in URLs : article_fetches[u] = 0
\* The minimum published_at extracted on the page precedes the cutoff.
PageMinPrecedesCutoff ==
    page_dates # {} /\ cutoff # None /\ MinOf(page_dates) < cutoff

\* C1: each article URL is marked seen and fetched at most once (exactly
\* once when it is in the seen-set, never otherwise), and no two records of
\* the list, as accumulated and as returned, share a url.
C1_EachUrlOnce ==
    /\ \A u \in URLs : article_fetches[u] = (IF u \in seen THEN 1 ELSE 0)
    /\ NoDuplicateUrls(articles)
    /\ returned.some => NoDuplicateUrls(returned.val)

\* C1 witness: a completed run in which a listing page showed a link that
\* was already seen, and that returned two records.
C1_Witness ==
    pc = "done" /\ relisted /\ returned.some /\ Len(returned.val) >= 2

\* C2: with a cutoff D, every record of the list has published_at >= D, at
\* every point of the run, in what is returned and in what is written.
C2_RecordsAtOrAfterCutoff ==
    cutoff # None =>
        /\ AllAtOrAfter(articles, cutoff)
        /\ returned.some => AllAtOrAfter(returned.val, cutoff)
        /\ file.some => AllAtOrAfter(file.val, cutoff)

\* C2 witness: a completed run with a cutoff that fell between two minutes,
\* that kept a record and discarded an extracted one.
C2_Witness ==
    /\ pc = "done" /\ cutoff # None /\ cutoff % TicksPerMinute # 0
    /\ Len(articles) >= 1
    /\ Cardinality(seen \ misses) > Len(articles)

C4_StopsIffMinPrecedes ==
    (cutoff # None /\ last_fetch = "article" /\ pc \in {"loop", "done"}) =>
        (pc = "done" <=> PageMinPrecedesCutoff)

\* C4 (amended): oldest_on_page is the minimum over every article extracted
\* on the page, retained or discarded, and every fetched URL is in the
\* seen-set; with a cutoff, once a page's links are processed the crawl ends
\* there (cutoff boundary crossed) if and only if that minimum precedes the
\* cutoff, and otherwise it goes on to the next page index, where only the
\* page limit can end it before the next listing page is fetched.
C4_CutoffStop ==
    /\ pc = "page" => oldest_on_page = MinOf(page_dates)
    /\ \A u \in URLs : article_fetches[u] > 0 => u \in seen
    /\ (cutoff # None /\ last_fetch = "article" /\ pc \in {"loop", "done"}) =>
            /\ outcome = "cutoff" <=> PageMinPrecedesCutoff
            /\ pc = "done" => outcome \in {"cutoff", "page_limit"}
            /\ outcome = "page_limit" => PageLimitReached(max_pages, page)

\* C4 witness: a run that ended at the cutoff on a page where one record
\* was retained and another discarded.
C4_Witness ==
    /\ pc = "done" /\ outcome = "cutoff"
    /\ Cardinality(page_dates) >= 2
    /\ \E d \in page_dates : d >= cutoff
    /\ Len(articles) >= 1

\* C5: once a listing-page or article fetch has failed the run is aborted:
\* no fetch follows, the failed fetch is not repeated, no list is returned
\* and nothing is written, whatever had been accumulated.
C5_FetchFailureAborts ==
    /\ [](outcome = "fetch_error" =>
            /\ pc = "aborted"
            /\ returned = Nothing
            /\ file = Nothing
            /\ list_fetches <= page + 1
            /\ \A u \in URLs : article_fetches[u] <= 1)
    /\ [][outcome = "fetch_error" =>
            UNCHANGED <<list_fetches, article_fetches, returned, file>>]_vars

\* C5 witness: an article fetch failed on the second page, with an output
\* file asked for and records accumulated.
C5_Witness ==
    /\ outcome = "fetch_error" /\ output /\ Len(articles) >= 1
    /\ last_fetch = "article" /\ page >= 1

\* C6: an article without a timestamp pattern yields no record, stays in
\* the seen-set, leaves oldest_on_page alone, and the crawl goes on with the
\* next link; a page on which nothing was extracted is followed by the next
\* page index.
C6_MissIsNotFatal ==
    /\ [](\A u \in misses :
            u \in seen /\ \A i \in 1..Len(articles) : articles[i].url # u)
    /\ [][misses' # misses =>
            /\ pc' = "page" /\ outcome' = "running"
            /\ todo' = Tail(todo)
            /\ oldest_on_page' = oldest_on_page
            /\ articles' = articles]_vars
    /\ [][(pc = "page" /\ todo = <<>> /\ page_dates = {} /\ pc' # pc) =>
            pc' = "loop" /\ page' = page + 1 /\ outcome' = "running"]_vars

\* C6 witness: a completed run that, after a miss, recorded a later link of
\* the same page and went on to a further page.
C6_Witness ==
    /\ pc = "done" /\ misses # {} /\ page >= 1
    /\ \E i \in 1..Len(articles) : \E u \in misses : articles[i].url > u

\* C7: an invocation with no day count, no since-date and no page count is
\* rejected with a configuration error before any network request.
C7_NoBoundRejected ==
    (entry # "none" /\ days = None /\ since = None /\ pages = None) =>
        pc = "aborted" /\ outcome = "config_error" /\ NoFetchYet

\* C7 witness: fetch_articles called with no bound, and rejected.
C7_Witness ==
    /\ entry = "api" /\ days = None /\ since = None /\ pages = None
    /\ outcome = "config_error"

\* A step that issues a fetch, of a listing page or of an article.
IssuesListingFetch == list_fetches' # list_fetches
IssuesArticleFetch == article_fetches' # article_fetches

\* C11 (as claimed): a fetch issued after an article fetch comes after a
\* delay (time.sleep(0.4), or the time.sleep(0.8) that ends the page), and
\* a listing-page fetch issued after a listing-page fetch comes after
\* time.sleep(0.8); whether the article was recorded, discarded by the
\* cutoff, or gave no item.
C11_DelayAfterEachFetch ==
    /\ [][(IssuesListingFetch \/ IssuesArticleFetch) /\ last_fetch = "article"
            => slept_short]_vars
    /\ [][IssuesListingFetch /\ list_fetches > 0 => slept_long]_vars

\* What the loop does keep: time.sleep(0.4) after every article fetch that
\* gave an item, recorded or discarded by the cutoff, no fetch between that
\* fetch and its delay, and time.sleep(0.8) between two listing-page fetches.
DelayExceptAfterMiss ==
    /\ [][IssuesArticleFetch /\ misses' = misses /\ outcome' = "running"
            => slept_short']_vars
    /\ [][slept_short /\ ~slept_short'
            => IssuesListingFetch \/ IssuesArticleFetch]_vars
    /\ [][IssuesListingFetch /\ list_fetches > 0 => slept_long]_vars

\* The run of scrape_articles is over, by return or by an exception.
Ended == pc \in {"done", "aborted"}

\* With a page limit: what is left of the crawl, counted in loop steps (the
\* pages left, then the top of the loop, then the links left on the page).
StepsLeft ==
    IF Ended \/ pc = "start" THEN 0
    ELSE (max_pages - page) * (NumUrls + 2)
          + (IF pc = "loop" THEN NumUrls + 1 ELSE Len(todo))

PickStrings(len, t, t2, a, b) ==
    [k \in 1..len |->
        IF k = a THEN DateStr(MinutesPerDay)
        ELSE IF k = b THEN DateStr(MinutesPerDay + 1)
        ELSE IF k = t \/ k = t2 THEN TitleStr
        ELSE TextA]

PickLens == {1, 2} \cup (MaxPickLen - 1)..MaxPickLen

InitPick ==
    /\ InitCrawl /\ InitImport
    /\ called = FALSE /\ result = Nothing
    /\ title \in {TitleStr, <<>>}
    /\ \E len \in PickLens :
        \E t \in 0..len, t2 \in {0, len}, a \in 0..len, b \in 0..len :
            /\ (a = 0 /\ b = 0) \/ a < b
            /\ strings = PickStrings(len, t, t2, a, b)

CallPick ==
    /\ ~called
    /\ called' = TRUE
    /\ result' = Some(pick_published_at(strings, title))
    /\ UNCHANGED <<strings, title, crawl_vars, import_vars>>

NextPick == CallPick

SpecPick == InitPick /\ [][NextPick]_vars

\* The entries a flattened text holds: stripped and not empty (parse_article
\* builds it so).
BodyEntries == {TitleStr, TextA, TextB, StopA, StopB, NoiseA}

RECURSIVE SeqsUpTo(_, _)
SeqsUpTo(S, n) ==
    IF n = 0 THEN {<<>>}
    ELSE LET shorter == SeqsUpTo(S, n - 1)
         IN  shorter \cup {Append(q, x) : q \in shorter, x \in S}

InitBody ==
    /\ InitCrawl /\ InitImport
    /\ called = FALSE /\ result = Nothing
    /\ title \in {TitleStr, <<>>}
    /\ strings \in SeqsUpTo(BodyEntries, MaxBodyLen)

CallBody ==
    /\ ~called
    /\ called' = TRUE
    /\ result' = extract_body(strings, title)
    /\ UNCHANGED <<strings, title, crawl_vars, import_vars>>

NextBody == CallBody

SpecBody == InitBody /\ [][NextBody]_vars

\* ---------------------------------------------- claims on the functions
\* 1-based position of the first entry equal to x.
FirstPos(seq, x) == Index(seq, x) + 1

\* The parse of the first entry at positions lo..hi that holds a timestamp
\* pattern, or None.
FirstMatchBetween(seq, lo, hi) ==
    LET M == {k \in lo..hi : DtSearch(seq[k]) # None}
    IN  IF M = {} THEN None ELSE Strptime(DtSearch(seq[MinOf(M)]))

\* What pick_published_at returns if the window reaches `after` entries
\* past the title and Window entries before it.
PickWithWindow(seq, t, after) ==
    LET whole == FirstMatchBetween(seq, 1, Len(seq))
    IN  IF Truthy(t) /\ In(t, seq)
        THEN LET p == FirstPos(seq, t)
                 w == FirstMatchBetween(seq, Max(1, p - Window),
                                        Min(Len(seq), p + after))
             IN  IF w # None THEN w ELSE whole
        ELSE whole

\* C8 (as claimed): the timestamp is the first match among the entries from
\* 15 before the title to 15 after it (clipped), else the first match of the
\* whole sequence, else null.
C8_SymmetricWindow ==
    called => result.val = PickWithWindow(strings, title, Window)

\* What the code does: the window ends 14 entries after the title.
PickWindowOneShort ==
    called => result.val = PickWithWindow(strings, title, Window - 1)

\* The lines of a body.
RECURSIVE Lines(_, _)
Lines(s, line) ==
    IF s = <<>> THEN <<line>>
    ELSE IF Head(s) = NEWLINE THEN <<line>> \o Lines(Tail(s), <<>>)
    ELSE Lines(Tail(s), Append(line, Head(s)))

\* The entries after the title's first position and before the first stop
\* marker after it, noise strings left out.
KeptEntries(seq, t) ==
    LET p == FirstPos(seq, t)
        stops == {k \in (p + 1)..Len(seq) : seq[k] \in STOP_MARKERS}
        end == IF stops = {} THEN Len(seq) + 1 ELSE MinOf(stops)
        IsKept(e) == e \notin NOISE_STRINGS
    IN  SelectSeq(SubSeq(seq, p + 1, end - 1), IsKept)

\* C9: with the title in the sequence, the body is the newline-join of the
\* kept entries, in order; no line of it is a stop marker or a noise string;
\* it is None, never the empty string, when nothing is kept or the title is
\* missing.
C9_BodyIsKeptEntries ==
    called =>
        /\ result # Some(<<>>)
        /\ IF Truthy(title) /\ In(title, strings) /\ KeptEntries(strings, title) # <<>>
           THEN /\ result = Some(Join(KeptEntries(strings, title)))
                /\ Lines(result.val, <<>>) = KeptEntries(strings, title)
                /\ \A i \in 1..Len(Lines(result.val, <<>>)) :
                      Lines(result.val, <<>>)[i] \notin STOP_MARKERS \cup NOISE_STRINGS
           ELSE result = Nothing

\* C9 witness: a body taken from a text with a noise string before the kept
\* entry, then a stop marker, then more text.
C9_Witness ==
    /\ called /\ result.some
    /\ strings = <<TitleStr, NoiseA, TextB, StopA, TextA>>

\* ------------------------------------------------------- import_results
\* A label is a JSON object: a function from its keys.  The label store
\* (LABELS_FILE) is a JSON object from url to label.  A parsed OUTPUT_FILE
\* is a list (type "list", its entries in items), an object (type "dict",
\* the object in obj), or any other JSON value (type "other").
\* {}: an object with no key (the store when LABELS_FILE does not exist).
EmptyDict == [k \in {} |-> <<>>]
LabelUrls == {"u1", "u2"}
\* The answers a label gives (strike_or_labour_unrest).
LabelBodies == {"yes", "no"}
LabelObjects ==
    {[answer |-> x] : x \in LabelBodies}
    \cup {[url |-> u, answer |-> x] : u \in LabelUrls, x \in LabelBodies}
LabelLists == SeqsUpTo(LabelObjects, MaxListLen)
FlatMaps == UNION {[D -> LabelObjects] : D \in SUBSET LabelUrls}
JsonList(l) == [type |-> "list", items |-> l, obj |-> EmptyDict]
JsonDict(d) == [type |-> "dict", items |-> <<>>, obj |-> d]
JsonOther == [type |-> "other", items |-> <<>>, obj |-> EmptyDict]
OutputFiles ==
    {JsonList(l) : l \in LabelLists}
    \cup {JsonDict([labels |-> l]) : l \in LabelLists}
    \cup {JsonDict([labels |-> l, u1 |-> [answer |-> "yes"]]) : l \in LabelLists}
    \cup {JsonDict(m) : m \in FlatMaps}
    \cup {JsonOther}

\* labels[key] = label
Put(labels, key, label) ==
    [k \in DOMAIN labels \cup {key} |-> IF k = key THEN label ELSE labels[k]]

\* label["url"] = url
WithUrl(label, url) ==
    [f \in DOMAIN label \cup {"url"} |-> IF f = "url" THEN url ELSE label[f]]

\* Faulty variant: an url already in the store is left as it is.
RECURSIVE MergeListFirstWins(_, _)
MergeListFirstWins(labels, list) ==
    IF list = <<>> THEN labels
    ELSE IF "url" \in DOMAIN Head(list) /\ Head(list).url \notin DOMAIN labels
         THEN MergeListFirstWins(Put(labels, Head(list).url, Head(list)), Tail(list))
    ELSE MergeListFirstWins(labels, Tail(list))

\* "for label in ...: if "url" in label: labels[label["url"]] = label"
RECURSIVE MergeList(_, _)
MergeList(labels, list) ==
    IF list = <<>> THEN labels
    ELSE IF "url" \in DOMAIN Head(list)
         THEN MergeList(Put(labels, Head(list).url, Head(list)), Tail(list))
    ELSE MergeList(labels, Tail(list))

\* "for url, label in new_labels.items(): label["url"] = url;
\* labels[url] = label"; todo holds the keys still to come.
RECURSIVE MergeFlat(_, _, _)
MergeFlat(labels, map, keys) ==
    IF keys = {} THEN labels
    ELSE LET url == CHOOSE k \in keys : TRUE
         IN  MergeFlat(Put(labels, url, WithUrl(map[url], url)), map, keys \ {url})

\* The branches of import_results on the shape of new_labels.
Merge(labels, new_labels) ==
    IF new_labels.type = "list" THEN MergeList(labels, new_labels.items)
    ELSE IF new_labels.type = "dict"
         THEN IF "labels" \in DOMAIN new_labels.obj
              THEN MergeList(labels, new_labels.obj.labels)
              ELSE MergeFlat(labels, new_labels.obj, DOMAIN new_labels.obj)
    ELSE labels

InitLabels ==
    /\ InitCrawl /\ InitFun
    /\ labels_file = Nothing /\ output_file = Nothing /\ loaded = Nothing

\* The labelling run outside this program leaves its results in OUTPUT_FILE.
WriteOutputFile ==
    /\ \E f \in OutputFiles : output_file' = Some(f)
    /\ loaded' = Nothing
    /\ UNCHANGED <<labels_file, crawl_vars, fun_vars>>

\* labeler.py: a label made by hand is stored under its article's url.
LabelByHand ==
    /\ \E u \in LabelUrls, x \in LabelBodies :
        labels_file' = Some(Put(IF labels_file.some THEN labels_file.val ELSE EmptyDict,
                                u, [url |-> u, answer |-> x]))
    /\ loaded' = Nothing
    /\ UNCHANGED <<output_file, crawl_vars, fun_vars>>

\* import_results, from the test for OUTPUT_FILE to save_json.
ImportResults ==
    /\ IF ~output_file.some
       THEN UNCHANGED <<labels_file, loaded>>
       ELSE LET labels == IF labels_file.some THEN labels_file.val ELSE EmptyDict
            IN  /\ loaded' = Some(labels)
                /\ labels_file' = Some(Merge(labels, output_file.val))
    /\ UNCHANGED <<output_file, crawl_vars, fun_vars>>

NextLabels == WriteOutputFile \/ LabelByHand \/ ImportResults

SpecLabels == InitLabels /\ [][NextLabels]_vars

\* ------------------------------------------------- claims on the import
\* The (url, label) pairs an OUTPUT_FILE holds, in order, whatever its
\* shape: the url is the label's own field, or its key in a flat map.
RECURSIVE ListPairs(_)
ListPairs(list) ==
    IF list = <<>> THEN <<>>
    ELSE IF "url" \in DOMAIN Head(list)
         THEN <<[url |-> Head(list).url, label |-> Head(list)]>> \o ListPairs(Tail(list))
    ELSE ListPairs(Tail(list))
RECURSIVE FlatPairs(_, _)
FlatPairs(map, keys) ==
    IF keys = {} THEN <<>>
    ELSE LET k == CHOOSE x \in keys : TRUE
         IN  <<[url |-> k, label |-> WithUrl(map[k], k)]>> \o FlatPairs(map, keys \ {k})
Pairs(f) ==
    IF f.type = "list" THEN ListPairs(f.items)
    ELSE IF f.type = "dict" /\ "labels" \in DOMAIN f.obj THEN ListPairs(f.obj.labels)
    ELSE IF f.type = "dict" THEN FlatPairs(f.obj, DOMAIN f.obj)
    ELSE <<>>
PairUrls(ps) == {ps[i].url : i \in 1..Len(ps)}
LastFor(ps, u) ==
    ps[CHOOSE i \in 1..Len(ps) :
          ps[i].url = u /\ \A j \in (i + 1)..Len(ps) : ps[j].url # u].label

\* C10: after an import the store holds one entry for each url it held
\* before and each url of the imported file; an imported url has the last
\* label the file gives it, any other url the label it had; every entry
\* carries its own url; labels without an url are not stored.
C10_ImportMerges ==
    /\ labels_file.some =>
          \A k \in DOMAIN labels_file.val :
              "url" \in DOMAIN labels_file.val[k] /\ labels_file.val[k].url = k
    /\ loaded.some =>
          LET ps == Pairs(output_file.val)
              store == labels_file.val
          IN  /\ DOMAIN store = DOMAIN loaded.val \cup PairUrls(ps)
              /\ \A u \in PairUrls(ps) : store[u] = LastFor(ps, u)
              /\ \A u \in DOMAIN store \ PairUrls(ps) : store[u] = loaded.val[u]

\* C10 witness: a flat map whose label had no url field was imported over
\* an entry of the store, and another entry stayed.
C10_Witness ==
    /\ loaded.some
    /\ output_file.val.type = "dict"
    /\ DOMAIN output_file.val.obj = {"u1"}
    /\ "url" \notin DOMAIN output_file.val.obj.u1
    /\ DOMAIN loaded.val = {"u1", "u2"}
    /\ loaded.val.u1 # labels_file.val.u1
    /\ loaded.val.u2 = labels_file.val.u2

====
